---- MODULE Spec2Model ----
(***************************************************************************)
(* Cross-chain bridge relayer: the coordinator's event loop, the signature *)
(* session map, the durable store and the chain watchers, as state         *)
(* machines translated from relayer/src and threshold/src.                 *)
(***************************************************************************)
EXTENDS Integers, Sequences, FiniteSets, TLC

\* ------------------------------------------------------------------------
\* Bounds of the model
\* ------------------------------------------------------------------------
NumHashes == 1
MaxValidators == 2
MaxQueue == 2
MaxAge == 2
MaxCrashes == 1
MaxHead == 2
MaxCalls == 3

\* ------------------------------------------------------------------------
\* Values
\* ------------------------------------------------------------------------
\* The placeholder the Ethereum watcher writes into every lock event.
MockTxHash == "mock_tx_hash"

HashNames == <<"0xa1", "0xa2", "0xa3", "0xa4">>

\* The transaction hashes of the chains: well-formed 32-byte hex strings.
TxHashes == {HashNames[i] : i \in 1..NumHashes}

Chains == {"ethereum", "polkadot"}

Validators == 1..MaxValidators

\* config.validator.validator_id of this process
SelfId == 1

\* BridgeEvent: EthereumLock (chain "ethereum") or PolkadotBurn ("polkadot")
BridgeEvent == [chain : Chains, tx_hash : TxHashes \cup {MockTxHash}]

\* The keys <<chain, src_tx>> of events
Keys == Chains \X (TxHashes \cup {MockTxHash})

NoEvent == [chain |-> "none", tx_hash |-> "none"]

\* An empty HashMap
EmptyMap == [x \in {} |-> x]

\* seconds of wall-clock time per step of the model clock
TickSecs == 1900

\* session_timeout of the reaper, in seconds
SessionTimeout == 3600

\* confirmations of both chains, as the test setup configures them
Confirmations == 1

\* ThresholdConfig::signature_timeout when SIGNATURE_TIMEOUT is not set, and the
\* values it takes when it is (seconds).
DefaultSignatureTimeout == 300

SignatureTimeouts == {DefaultSignatureTimeout, 2 * SessionTimeout}

VARIABLES
    config,                  \* RelayerConfig: threshold, validator, wallet
    db_faulty,               \* whether queries of the store can fail in this run
    event_queue,             \* mpsc channel watcher -> coordinator
    pc,                      \* position of handle_event
    cur,                     \* the event being handled
    signatures,              \* result of get_*_signatures held by the handler
    pending_signatures,      \* SignatureCoordinator.pending_signatures
    processed_transactions,  \* table processed_transactions
    ethereum_locks,          \* table ethereum_locks (tx_hash column)
    polkadot_burns,          \* table polkadot_burns (tx_hash column)
    submitted,               \* history: <<chain, tx>> whose mint/unlock call returned Ok
    confirmed,               \* <<chain, tx>> whose effect reached confirmation depth
    marked_ok,               \* history: <<chain, tx>> for which mark_*_processed returned Ok
    killed_after_submit,     \* history: <<chain, tx>> killed between submission and mark
    crashes,                 \* number of process kills so far
    head,                    \* per chain: the current block number
    chain_events,            \* per chain: the lock / burn events, [block, tx_hash]
    cursor,                  \* bridge_state: last_ethereum_block / last_polkadot_block
    last_processed_block,    \* per watcher: its local last_processed_block
    wpc,                     \* per watcher: position in its loop
    signing_session,         \* a SigningSession made by SimpleThresholdManager
    ret,                     \* the last call of an operation called directly, and its result
    current_block,           \* per chain, the head a watcher read in its current poll
    receiver_open,           \* the receiving end of the event channel exists
    agg,                     \* the last call of aggregate_signatures and its result
    lock_rows,               \* per chain: the rows of ethereum_locks / polkadot_burns
                             \* written by store_* called directly
    pallet,                  \* storage of the bridge pallet and of its assets
    pcall                    \* the last call of the pallet and its result

vars == <<config, db_faulty, event_queue, pc, cur, signatures, pending_signatures,
          processed_transactions, ethereum_locks, polkadot_burns,
          submitted, confirmed, marked_ok, killed_after_submit, crashes,
          head, chain_events, cursor, last_processed_block, wpc,
          signing_session, ret, current_block, receiver_open, agg,
          lock_rows, pallet, pcall>>

\* ------------------------------------------------------------------------
\* threshold/src/utils.rs, threshold/src/simple.rs
\* ------------------------------------------------------------------------
\* ThresholdConfig::new(threshold, total_validators, key_size)
ThresholdConfig_new(threshold, total_validators) ==
    IF threshold > total_validators THEN [ok |-> FALSE, error |-> "InvalidThreshold"]
    ELSE IF threshold = 0 THEN [ok |-> FALSE, error |-> "InvalidThreshold"]
    ELSE [ok |-> TRUE, error |-> "none"]

\* A validate that lets a threshold of zero through.
ThresholdConfig_validate_allowing_zero(threshold, total_validators) ==
    IF threshold > total_validators
    THEN [ok |-> FALSE, error |-> "InvalidThreshold"]
    ELSE [ok |-> TRUE, error |-> "none"]

\* ThresholdConfig::validate(&self), self any value of the struct
ThresholdConfig_validate(threshold, total_validators) ==
    IF threshold > total_validators \/ threshold = 0
    THEN [ok |-> FALSE, error |-> "InvalidThreshold"]
    ELSE [ok |-> TRUE, error |-> "none"]

\* SimpleThresholdManager::new(config): config.validate()?
SimpleThresholdManager_new(threshold, total_validators) ==
    ThresholdConfig_validate(threshold, total_validators)

\* RelayerConfig::validate: the endpoints of the chains, then the threshold,
\* then the store's url.
RelayerConfig_validate(endpoints_ok, threshold, total_validators, database_ok) ==
    IF ~endpoints_ok THEN [ok |-> FALSE, error |-> "Config(endpoint)"]
    ELSE IF threshold = 0 THEN [ok |-> FALSE, error |-> "Config(threshold zero)"]
    ELSE IF threshold > total_validators
    THEN [ok |-> FALSE, error |-> "Config(threshold above total)"]
    ELSE IF ~database_ok THEN [ok |-> FALSE, error |-> "Config(database)"]
    ELSE [ok |-> TRUE, error |-> "none"]

\* SHA-256 over domain bytes followed by data bytes: the digest is modelled
\* by its preimage, the concatenation.
hash_with_domain(domain, data) == domain \o data

\* KeyShare: validator v's own private share is modelled by v.
KeyShare(validator_id, private_share) ==
    [validator_id |-> validator_id, private_share |-> private_share]

\* An ECDSA signature is modelled by the key that made it and the digest it
\* was made over.  The manager's partials carry no commitment.
create_partial_signature(key_share, message, session_id) ==
    [validator_id |-> key_share.validator_id,
     signature |-> [key |-> key_share.private_share,
                    digest |-> hash_with_domain(session_id, message)],
     commitment |-> "None"]

\* PartialSignature.commitment, an Option the caller of an admit operation fills.
Commitments == {"None", "R1", "R2"}

WithCommitment(partial_sig, commitment) ==
    [partial_sig EXCEPT !.commitment = commitment]

\* The id and the message of the SigningSession the manager's callers hold.
SessionId == "session-1"

SessionMessage == "test message"

\* SimpleThresholdManager::create_signing_session
create_signing_session(cfg, message, session_id) ==
    [id |-> session_id,
     message |-> message,
     partial_signatures |-> EmptyMap,
     threshold |-> cfg.threshold,
     total_validators |-> cfg.total_validators]

\* SimpleThresholdManager::add_partial_signature: the session and the result.
SimpleThresholdManager_add_partial_signature(sess, validator_id, partial_sig) ==
    IF validator_id \in DOMAIN sess.partial_signatures
    THEN [session |-> sess, result |-> "DuplicateSignature"]
    ELSE [session |-> [sess EXCEPT !.partial_signatures =
                          [v \in (DOMAIN @) \cup {validator_id} |->
                              IF v = validator_id THEN partial_sig ELSE @[v]]],
          result |-> "Ok"]

\* PublicKeyShare of validator v: the public key of private share v is
\* modelled by v too, so a signature made with share s verifies under p iff p = s.
PublicKeyShare(validator_id) ==
    [validator_id |-> validator_id, public_share |-> validator_id]

NoSignature == [key |-> 0, digest |-> ""]

\* A threshold test that also refuses exactly k partials.
aggregate_signatures_above_k(cfg, partial_sigs, public_key_shares, message, session_id) ==
    IF Len(partial_sigs) <= cfg.threshold
    THEN [ok |-> FALSE, error |-> "InsufficientSignatures",
          signature |-> NoSignature, signers |-> << >>]
    ELSE [ok |-> TRUE, error |-> "none",
          signature |-> partial_sigs[1].signature,
          signers |-> [i \in 1..cfg.threshold |-> partial_sigs[i].validator_id]]

\* SimpleThresholdManager::aggregate_signatures: Err(InsufficientSignatures) or
\* the AggregatedSignature, whose signature is the first partial's and whose
\* signers are the first k partials' validator ids.
aggregate_signatures(cfg, partial_sigs, public_key_shares, message, session_id) ==
    IF Len(partial_sigs) < cfg.threshold
    THEN [ok |-> FALSE, error |-> "InsufficientSignatures",
          signature |-> NoSignature, signers |-> << >>]
    ELSE [ok |-> TRUE, error |-> "none",
          signature |-> partial_sigs[1].signature,
          signers |-> [i \in 1..cfg.threshold |-> partial_sigs[i].validator_id]]

\* utils::compute_combined_public_key: the first share's public key.
compute_combined_public_key(key_shares) ==
    IF key_shares = << >> THEN 0 ELSE key_shares[1].public_share

\* SimpleThresholdManager::verify_signature
verify_signature(signature, message, public_key, session_id) ==
    /\ signature.signature.key = public_key
    /\ signature.signature.digest = hash_with_domain(session_id, message)

\* SimpleThresholdManager::is_session_ready
is_session_ready(cfg, sess) ==
    Cardinality(DOMAIN sess.partial_signatures) >= cfg.threshold

\* ------------------------------------------------------------------------
\* relayer/src/signature_coordinator.rs
\* ------------------------------------------------------------------------
create_mint_message(ethereum_tx_hash) == "mint:" \o ethereum_tx_hash

create_unlock_message(polkadot_tx_hash) == "unlock:" \o polkadot_tx_hash

MessageOf(chain, tx_hash) ==
    IF chain = "ethereum" THEN create_mint_message(tx_hash)
    ELSE create_unlock_message(tx_hash)

\* The session a request_*_signature call stores. created_at is kept as the
\* session's age, now - created_at in ticks, which is 0 at creation.
SignatureSession(chain, tx_hash, required) ==
    [tx_hash |-> tx_hash,
     message |-> MessageOf(chain, tx_hash),
     partial_signatures |-> EmptyMap,
     required_signatures |-> required,
     age |-> 0]

\* pending.insert(tx_hash, session): replaces whatever was stored under the key.
InsertSession(pending, tx_hash, session) ==
    [h \in (DOMAIN pending) \cup {tx_hash} |->
        IF h = tx_hash THEN session ELSE pending[h]]

\* HashMap::insert into partial_signatures.
InsertPartial(partials, validator_id, partial_sig) ==
    [v \in (DOMAIN partials) \cup {validator_id} |->
        IF v = validator_id THEN partial_sig ELSE partials[v]]

\* SignatureCoordinator::add_partial_signature: the new map and the result.
SignatureCoordinator_add_partial_signature(pending, tx_hash, validator_id, partial_sig) ==
    IF tx_hash \in DOMAIN pending
    THEN [pending |-> [pending EXCEPT ![tx_hash].partial_signatures =
                          InsertPartial(@, validator_id, partial_sig)],
          result |-> "Ok"]
    ELSE [pending |-> pending, result |-> "Ok"]

NoSignatures == [some |-> FALSE, signers |-> {}]

\* A readiness test that is satisfied one partial early.
get_mint_signatures_one_short(pending, tx_hash) ==
    IF /\ tx_hash \in DOMAIN pending
       /\ Cardinality(DOMAIN pending[tx_hash].partial_signatures) + 1
              >= pending[tx_hash].required_signatures
    THEN [some |-> TRUE, signers |-> DOMAIN pending[tx_hash].partial_signatures]
    ELSE NoSignatures

\* SignatureCoordinator::get_mint_signatures: Some(signatures) or None.
\* The signature list is modelled by the set of map keys it was taken from.
get_mint_signatures(pending, tx_hash) ==
    IF /\ tx_hash \in DOMAIN pending
       /\ Cardinality(DOMAIN pending[tx_hash].partial_signatures)
              >= pending[tx_hash].required_signatures
    THEN [some |-> TRUE, signers |-> DOMAIN pending[tx_hash].partial_signatures]
    ELSE NoSignatures

get_unlock_signatures(pending, tx_hash) == get_mint_signatures(pending, tx_hash)

\* now.duration_since(session.created_at), in seconds
Elapsed(session) == session.age * TickSecs

\* The retain predicate of cleanup_expired_signatures.
cleanup_expired_signatures(pending) ==
    [h \in {x \in DOMAIN pending : ~(Elapsed(pending[x]) > SessionTimeout)} |-> pending[h]]

\* ------------------------------------------------------------------------
\* relayer/src/database.rs
\* ------------------------------------------------------------------------
ChainCount(table, chain, tx_hash) ==
    Cardinality({r \in table : r.tx_hash = tx_hash /\ r.chain = chain})

is_ethereum_tx_processed(table, tx_hash) == ChainCount(table, "ethereum", tx_hash) > 0

is_polkadot_tx_processed(table, tx_hash) == ChainCount(table, "polkadot", tx_hash) > 0

is_tx_processed(table, chain, tx_hash) ==
    IF chain = "ethereum" THEN is_ethereum_tx_processed(table, tx_hash)
    ELSE is_polkadot_tx_processed(table, tx_hash)

\* An insert that on conflict rewrites the row for the new chain.
InsertProcessed_replacing(table, tx_hash, chain) ==
    {r \in table : r.tx_hash # tx_hash} \cup {[tx_hash |-> tx_hash, chain |-> chain]}

\* INSERT ... ON CONFLICT (tx_hash) DO NOTHING; tx_hash alone is UNIQUE.
InsertProcessed(table, tx_hash, chain) ==
    IF \E r \in table : r.tx_hash = tx_hash
    THEN table
    ELSE table \cup {[tx_hash |-> tx_hash, chain |-> chain]}

mark_ethereum_tx_processed(table, tx_hash) == InsertProcessed(table, tx_hash, "ethereum")

mark_polkadot_tx_processed(table, tx_hash) == InsertProcessed(table, tx_hash, "polkadot")

mark_tx_processed(table, chain, tx_hash) ==
    IF chain = "ethereum" THEN mark_ethereum_tx_processed(table, tx_hash)
    ELSE mark_polkadot_tx_processed(table, tx_hash)

\* An insert that on conflict rewrites the row with the new values.
InsertLock_updating(table, row) ==
    {r \in table : r.tx_hash # row.tx_hash} \cup {row}

\* INSERT INTO ethereum_locks / polkadot_burns ... ON CONFLICT (tx_hash) DO
\* NOTHING. A row is its tx_hash and, for the other columns, block_number.
InsertLock(table, row) ==
    IF \E r \in table : r.tx_hash = row.tx_hash
    THEN table
    ELSE table \cup {row}

store_ethereum_lock(rows, tx_hash, block_number) ==
    [rows EXCEPT !["ethereum"] =
         InsertLock(@, [tx_hash |-> tx_hash, block_number |-> block_number])]

store_polkadot_burn(rows, tx_hash, block_number) ==
    [rows EXCEPT !["polkadot"] =
         InsertLock(@, [tx_hash |-> tx_hash, block_number |-> block_number])]

store_lock(rows, chain, tx_hash, block_number) ==
    IF chain = "ethereum" THEN store_ethereum_lock(rows, tx_hash, block_number)
    ELSE store_polkadot_burn(rows, tx_hash, block_number)

count_processed_txs(table, chain) == Cardinality({r \in table : r.chain = chain})

\* ------------------------------------------------------------------------
\* relayer/src/ethereum.rs, relayer/src/polkadot.rs
\* ------------------------------------------------------------------------
\* polkadot_tx_hash.parse::<H256>() in unlock_tokens
ParsesAsH256(tx_hash) == tx_hash # MockTxHash

\* EthereumClient::unlock_tokens returns Ok
unlock_tokens_ok(cfg, tx_hash) == cfg.wallet /\ ParsesAsH256(tx_hash)

\* PolkadotClient::mint_tokens returns Ok
mint_tokens_ok(cfg, tx_hash) == TRUE

\* ------------------------------------------------------------------------
\* relayer/src/coordinator.rs: handle_event, one action per suspension point
\* ------------------------------------------------------------------------
Key(ev) == <<ev.chain, ev.tx_hash>>

\* ------------------------------------------------------------------------
\* contracts/substrate/src/lib.rs: the bridge pallet over pallet_assets
\* ------------------------------------------------------------------------
MaxAccounts == 2
MaxAssets == 2
MaxAmount == 1
MaxRequests == 2

Accounts == 1..MaxAccounts
AssetIds == 1..MaxAssets
Amounts == 0..MaxAmount
EthereumAddresses == {"0xt1", "0xt2"}
EthereumTxHashes == {"0xe1", "0xe2"}

\* OriginFor<T>: Root or Signed(who)
Origins == {[kind |-> "Root", who |-> 0]} \cup {[kind |-> "Signed", who |-> a] : a \in Accounts}

\* mint_tokens and burn_tokens arrive as signed extrinsics; mint_tokens reads
\* nothing of its signer.
MintOrigins == {[kind |-> "Signed", who |-> 1]}
BurnOrigins == {o \in Origins : o.kind = "Signed"}

\* StorageMap::insert
StorageInsert(map, key, value) ==
    [k \in DOMAIN map \cup {key} |-> IF k = key THEN value ELSE map[k]]

\* The pallet's storage in a new chain: every map empty, every counter zero.
\* MintRequests / BurnRequests with NextMintRequestId / NextBurnRequestId are
\* sequences: the request of id i is element i + 1. assets is the storage of
\* pallet_assets: for each created asset the balance of every account.
GenesisPallet(threshold) ==
    [bridged_tokens |-> EmptyMap, asset_to_ethereum |-> EmptyMap,
     threshold |-> threshold, processed_ethereum_txs |-> {},
     mint_requests |-> << >>, burn_requests |-> << >>, assets |-> EmptyMap]

NoCall == [op |-> "none", result |-> "none", ethereum_address |-> "none", asset_id |-> 0,
           amount |-> 0, ethereum_tx_hash |-> "none", signatures |-> 0]

\* pallet_assets::create by the pallet account with min_balance 1. ok stands
\* for every reason of pallet_assets other than the asset id being in use.
assets_create(assets, id, ok) ==
    IF ~ok \/ id \in DOMAIN assets
    THEN [ok |-> FALSE, assets |-> assets]
    ELSE [ok |-> TRUE, assets |-> StorageInsert(assets, id, [a \in Accounts |-> 0])]

\* pallet_assets::mint by the pallet account, the asset's issuer
assets_mint(assets, id, beneficiary, amount, ok) ==
    IF ~ok \/ id \notin DOMAIN assets
    THEN [ok |-> FALSE, assets |-> assets]
    ELSE [ok |-> TRUE,
          assets |-> [assets EXCEPT ![id][beneficiary] = @ + amount]]

\* pallet_assets::burn of who's own tokens
assets_burn(assets, id, who, amount, ok) ==
    IF ~ok \/ id \notin DOMAIN assets \/ assets[id][who] < amount
    THEN [ok |-> FALSE, assets |-> assets]
    ELSE [ok |-> TRUE, assets |-> [assets EXCEPT ![id][who] = @ - amount]]

\* A dispatchable runs in a storage layer: with an Err every write it made
\* is discarded, so the storage it returns is the one it was called with.
Err(p, error) == [pallet |-> p, result |-> error]

\* register_token from the creation of the asset on
do_register(p, ethereum_address, asset_id, assets_ok) ==
    LET created == assets_create(p.assets, asset_id, assets_ok) IN
    IF ~created.ok THEN Err(p, "AssetCreationFailed")
    ELSE [pallet |->
            [p EXCEPT !.assets = created.assets,
                      !.bridged_tokens =
                          StorageInsert(@, ethereum_address,
                                        [asset_id |-> asset_id, total_supply |-> 0,
                                         is_active |-> TRUE]),
                      !.asset_to_ethereum = StorageInsert(@, asset_id, ethereum_address)],
          result |-> "Ok"]

\* register_token that overwrites a registered address
register_token_overwriting(p, origin, ethereum_address, asset_id, assets_ok) ==
    IF origin.kind # "Root" THEN Err(p, "BadOrigin")
    ELSE do_register(p, ethereum_address, asset_id, assets_ok)

register_token(p, origin, ethereum_address, asset_id, assets_ok) ==
    IF origin.kind # "Root" THEN Err(p, "BadOrigin")
    ELSE IF ethereum_address \in DOMAIN p.bridged_tokens
    THEN Err(p, "TokenAlreadyRegistered")
    ELSE do_register(p, ethereum_address, asset_id, assets_ok)

\* mint_tokens from "Mark transaction as processed" on
do_mint(p, recipient, ethereum_address, amount, ethereum_tx_hash, assets_ok) ==
    LET bridged_token == p.bridged_tokens[ethereum_address]
        minted == assets_mint(p.assets, bridged_token.asset_id, recipient, amount, assets_ok)
    IN
    IF ~minted.ok THEN Err(p, "AssetCreationFailed")
    ELSE [pallet |->
            [p EXCEPT !.processed_ethereum_txs = @ \cup {ethereum_tx_hash},
                      !.assets = minted.assets,
                      !.bridged_tokens[ethereum_address].total_supply = @ + amount,
                      !.mint_requests =
                          Append(@, [recipient |-> recipient,
                                     asset_id |-> bridged_token.asset_id,
                                     amount |-> amount,
                                     ethereum_tx_hash |-> ethereum_tx_hash,
                                     processed |-> TRUE])],
          result |-> "Ok"]

\* mint_tokens that does not look at ProcessedEthereumTxs
mint_tokens_replaying(p, origin, recipient, ethereum_address, amount, ethereum_tx_hash, signatures_len, assets_ok) ==
    IF origin.kind # "Signed" THEN Err(p, "BadOrigin")
    ELSE IF ethereum_address \notin DOMAIN p.bridged_tokens
    THEN Err(p, "TokenNotRegistered")
    ELSE IF ~p.bridged_tokens[ethereum_address].is_active
    THEN Err(p, "TokenNotRegistered")
    ELSE IF amount = 0 THEN Err(p, "InvalidAmount")
    ELSE IF ~(signatures_len >= p.threshold) THEN Err(p, "InsufficientSignatures")
    ELSE do_mint(p, recipient, ethereum_address, amount, ethereum_tx_hash, assets_ok)

\* mint_tokens that does not count the signatures
mint_tokens_uncounted(p, origin, recipient, ethereum_address, amount, ethereum_tx_hash, signatures_len, assets_ok) ==
    IF origin.kind # "Signed" THEN Err(p, "BadOrigin")
    ELSE IF ethereum_tx_hash \in p.processed_ethereum_txs
    THEN Err(p, "TransactionAlreadyProcessed")
    ELSE IF ethereum_address \notin DOMAIN p.bridged_tokens
    THEN Err(p, "TokenNotRegistered")
    ELSE IF ~p.bridged_tokens[ethereum_address].is_active
    THEN Err(p, "TokenNotRegistered")
    ELSE IF amount = 0 THEN Err(p, "InvalidAmount")
    ELSE do_mint(p, recipient, ethereum_address, amount, ethereum_tx_hash, assets_ok)

\* signatures_len is signatures.len(): the call looks at nothing else of them.
mint_tokens(p, origin, recipient, ethereum_address, amount, ethereum_tx_hash, signatures_len, assets_ok) ==
    IF origin.kind # "Signed" THEN Err(p, "BadOrigin")
    ELSE IF ethereum_tx_hash \in p.processed_ethereum_txs
    THEN Err(p, "TransactionAlreadyProcessed")
    ELSE IF ethereum_address \notin DOMAIN p.bridged_tokens
    THEN Err(p, "TokenNotRegistered")
    ELSE IF ~p.bridged_tokens[ethereum_address].is_active
    THEN Err(p, "TokenNotRegistered")
    ELSE IF amount = 0 THEN Err(p, "InvalidAmount")
    ELSE IF ~(signatures_len >= p.threshold) THEN Err(p, "InsufficientSignatures")
    ELSE do_mint(p, recipient, ethereum_address, amount, ethereum_tx_hash, assets_ok)

\* u128::saturating_sub
saturating_sub(a, b) == IF b > a THEN 0 ELSE a - b

\* burn_tokens from the BurnRequest record on
record_burn(p, who, asset_id, amount) ==
    [p EXCEPT !.burn_requests =
                  Append(@, [burner |-> who, asset_id |-> asset_id, amount |-> amount,
                             processed |-> FALSE])]

\* burn_tokens that leaves total_supply as it was
burn_tokens_keeping_supply(p, origin, asset_id, amount, assets_ok) ==
    IF origin.kind # "Signed" THEN Err(p, "BadOrigin")
    ELSE IF asset_id \notin DOMAIN p.asset_to_ethereum THEN Err(p, "TokenNotRegistered")
    ELSE IF amount = 0 THEN Err(p, "InvalidAmount")
    ELSE LET burned == assets_burn(p.assets, asset_id, origin.who, amount, assets_ok) IN
         IF ~burned.ok THEN Err(p, "InsufficientBalance")
         ELSE [pallet |-> record_burn([p EXCEPT !.assets = burned.assets],
                                      origin.who, asset_id, amount),
               result |-> "Ok"]

burn_tokens(p, origin, asset_id, amount, assets_ok) ==
    IF origin.kind # "Signed" THEN Err(p, "BadOrigin")
    ELSE IF asset_id \notin DOMAIN p.asset_to_ethereum THEN Err(p, "TokenNotRegistered")
    ELSE LET ethereum_address == p.asset_to_ethereum[asset_id] IN
         IF ethereum_address \notin DOMAIN p.bridged_tokens
         THEN Err(p, "TokenNotRegistered")
         ELSE IF ~p.bridged_tokens[ethereum_address].is_active
         THEN Err(p, "TokenNotRegistered")
         ELSE IF amount = 0 THEN Err(p, "InvalidAmount")
         ELSE LET burned == assets_burn(p.assets, asset_id, origin.who, amount, assets_ok) IN
              IF ~burned.ok THEN Err(p, "InsufficientBalance")
              ELSE [pallet |->
                      record_burn(
                          [p EXCEPT !.assets = burned.assets,
                                    !.bridged_tokens[ethereum_address].total_supply =
                                        saturating_sub(@, amount)],
                          origin.who, asset_id, amount),
                    result |-> "Ok"]

PalletVars == <<pallet, pcall>>

EnvVars == <<config, db_faulty>>

ApiVars == <<signing_session, ret, agg>>

\* The outcomes of one query of the store: Ok (TRUE) or Err (FALSE).
DbOutcomes == IF db_faulty THEN BOOLEAN ELSE {TRUE}

HandlerVars == <<pc, cur, signatures>>

DbVars == <<processed_transactions, ethereum_locks, polkadot_burns>>

HistVars == <<submitted, confirmed, marked_ok, killed_after_submit, crashes>>

ChainVars == <<head, chain_events>>

WatcherVars == <<cursor, last_processed_block, wpc>>

\* The handler returns and the event loop ends with it.
ReturnAndStop ==
    /\ pc' = "stopped"
    /\ cur' = NoEvent
    /\ signatures' = NoSignatures

\* The handler returns: Err(e) or Ok(()) without having marked the event.
\* process_events logs an Err and takes the next event.
ReturnUnfinished ==
    /\ pc' = "idle"
    /\ cur' = NoEvent
    /\ signatures' = NoSignatures

\* process_events takes the next event; handle_*: is_*_tx_processed, then
\* store_ethereum_lock / store_polkadot_burn. A store query may fail.
ReceiveEvent ==
    /\ pc = "idle"
    /\ event_queue # << >>
    /\ LET ev == Head(event_queue) IN
       /\ event_queue' = Tail(event_queue)
       /\ \E db_ok \in DbOutcomes :
            IF ~db_ok
            THEN UNCHANGED <<pc, cur, signatures, ethereum_locks, polkadot_burns>>
            ELSE IF is_tx_processed(processed_transactions, ev.chain, ev.tx_hash)
            THEN UNCHANGED <<pc, cur, signatures, ethereum_locks, polkadot_burns>>
            ELSE /\ cur' = ev
                 /\ pc' = IF config.enabled THEN "request" ELSE "get"
                 /\ ethereum_locks' = IF ev.chain = "ethereum"
                                      THEN ethereum_locks \cup {ev.tx_hash}
                                      ELSE ethereum_locks
                 /\ polkadot_burns' = IF ev.chain = "polkadot"
                                      THEN polkadot_burns \cup {ev.tx_hash}
                                      ELSE polkadot_burns
                 /\ UNCHANGED signatures
    /\ UNCHANGED <<EnvVars, PalletVars, lock_rows, receiver_open, current_block, ApiVars, pending_signatures, processed_transactions, HistVars,
                   ChainVars, WatcherVars>>

\* request_mint_signature / request_unlock_signature up to the stored session.
RequestSignature ==
    /\ pc = "request"
    /\ pending_signatures' =
           InsertSession(pending_signatures, cur.tx_hash,
                         SignatureSession(cur.chain, cur.tx_hash, config.threshold))
    /\ pc' = IF config.private_key = "none" THEN "get" ELSE "sign"
    /\ UNCHANGED <<EnvVars, PalletVars, lock_rows, receiver_open, current_block, ApiVars, event_queue, cur, signatures, DbVars, HistVars,
                   ChainVars, WatcherVars>>

\* request_*_signature from get_validator_key_share on: the own partial.
SignOwnPartial ==
    /\ pc = "sign"
    /\ IF config.private_key = "bad"
       THEN /\ ReturnUnfinished
            /\ UNCHANGED pending_signatures
       ELSE /\ pending_signatures' =
                   SignatureCoordinator_add_partial_signature(
                       pending_signatures, cur.tx_hash, SelfId,
                       create_partial_signature(KeyShare(SelfId, SelfId),
                           MessageOf(cur.chain, cur.tx_hash), cur.tx_hash)).pending
            /\ pc' = "get"
            /\ UNCHANGED <<cur, signatures>>
    /\ UNCHANGED <<EnvVars, PalletVars, lock_rows, receiver_open, current_block, ApiVars, event_queue, DbVars, HistVars, ChainVars, WatcherVars>>

\* get_mint_signatures / get_unlock_signatures in the handler.
GetSignatures ==
    /\ pc = "get"
    /\ LET got == IF cur.chain = "ethereum"
                  THEN get_mint_signatures(pending_signatures, cur.tx_hash)
                  ELSE get_unlock_signatures(pending_signatures, cur.tx_hash) IN
       IF got.some
       THEN /\ signatures' = got
            /\ pc' = "submit"
            /\ UNCHANGED cur
       ELSE ReturnUnfinished
    /\ UNCHANGED <<EnvVars, PalletVars, lock_rows, receiver_open, current_block, ApiVars, event_queue, pending_signatures, DbVars, HistVars,
                   ChainVars, WatcherVars>>

\* mint_tokens, or get_token_address_by_asset_id and unlock_tokens. db_ok:
\* the token_mappings query returned a row.
SubmitOk(ev, db_ok) ==
    IF ev.chain = "ethereum"
    THEN mint_tokens_ok(config, ev.tx_hash)
    ELSE /\ db_ok
         /\ unlock_tokens_ok(config, ev.tx_hash)

Submit ==
    /\ pc = "submit"
    /\ \E db_ok \in DbOutcomes :
         IF SubmitOk(cur, db_ok)
         THEN /\ submitted' = submitted \cup {Key(cur)}
              /\ pc' = "mark"
              /\ UNCHANGED <<cur, signatures>>
         ELSE /\ ReturnUnfinished
              /\ UNCHANGED submitted
    /\ UNCHANGED <<EnvVars, PalletVars, lock_rows, receiver_open, current_block, ApiVars, event_queue, pending_signatures, DbVars,
                   confirmed, marked_ok, killed_after_submit, crashes,
                   ChainVars, WatcherVars>>

\* mark_ethereum_tx_processed / mark_polkadot_tx_processed, then Ok(()).
MarkProcessed ==
    /\ pc = "mark"
    /\ \E db_ok \in DbOutcomes :
         IF db_ok
         THEN /\ processed_transactions' =
                     mark_tx_processed(processed_transactions, cur.chain, cur.tx_hash)
              /\ marked_ok' = marked_ok \cup {Key(cur)}
              /\ pc' = "idle"
              /\ cur' = NoEvent
              /\ signatures' = NoSignatures
         ELSE /\ ReturnUnfinished
              /\ UNCHANGED <<processed_transactions, marked_ok>>
    /\ UNCHANGED <<EnvVars, PalletVars, lock_rows, receiver_open, current_block, ApiVars, event_queue, pending_signatures,
                   ethereum_locks, polkadot_burns,
                   submitted, confirmed, killed_after_submit, crashes,
                   ChainVars, WatcherVars>>

\* ------------------------------------------------------------------------
\* The coordinator's surroundings
\* ------------------------------------------------------------------------
\* event_sender.send(bridge_event), the event's tx_hash one of hashes
SendEventWith(hashes) ==
    /\ Len(event_queue) < MaxQueue
    /\ \E c \in Chains, h \in hashes :
         event_queue' = Append(event_queue, [chain |-> c, tx_hash |-> h])
    /\ UNCHANGED <<EnvVars, PalletVars, lock_rows, receiver_open, current_block, ApiVars, HandlerVars, pending_signatures, DbVars, HistVars,
                   ChainVars, WatcherVars>>

SendEvent == SendEventWith(TxHashes)

\* A peer's partial for the session of tx_hash arrives and is handed to
\* SignatureCoordinator::add_partial_signature. The peer signed the session's
\* message with its own share.
PeerPartial ==
    /\ \E tx_hash \in DOMAIN pending_signatures, validator_id \in Validators \ {SelfId} :
            pending_signatures' =
                SignatureCoordinator_add_partial_signature(
                    pending_signatures, tx_hash, validator_id,
                    create_partial_signature(KeyShare(validator_id, validator_id),
                        pending_signatures[tx_hash].message, tx_hash)).pending
    /\ UNCHANGED <<EnvVars, PalletVars, lock_rows, receiver_open, current_block, ApiVars, event_queue, HandlerVars, DbVars, HistVars,
                   ChainVars, WatcherVars>>

\* One pass of the reaper task, which runs in validator mode only.
CleanupExpired ==
    /\ config.enabled
    /\ pending_signatures' = cleanup_expired_signatures(pending_signatures)
    /\ UNCHANGED <<EnvVars, PalletVars, lock_rows, receiver_open, current_block, ApiVars, event_queue, HandlerVars, DbVars, HistVars,
                   ChainVars, WatcherVars>>

\* Wall-clock time passes: every session grows older.
Tick ==
    /\ \E h \in DOMAIN pending_signatures : pending_signatures[h].age < MaxAge
    /\ pending_signatures' =
           [h \in DOMAIN pending_signatures |->
               [pending_signatures[h] EXCEPT !.age = IF @ < MaxAge THEN @ + 1 ELSE @]]
    /\ UNCHANGED <<EnvVars, PalletVars, lock_rows, receiver_open, current_block, ApiVars, event_queue, HandlerVars, DbVars, HistVars,
                   ChainVars, WatcherVars>>

\* The destination chain buries a submitted effect under enough blocks.
ConfirmEffect ==
    /\ \E k \in submitted \ confirmed : confirmed' = confirmed \cup {k}
    /\ UNCHANGED <<EnvVars, PalletVars, lock_rows, receiver_open, current_block, ApiVars, event_queue, HandlerVars, pending_signatures, DbVars,
                   submitted, marked_ok, killed_after_submit, crashes,
                   ChainVars, WatcherVars>>

\* The process is killed and started again: memory is lost, the store is kept.
KillAndRestart ==
    /\ crashes < MaxCrashes
    /\ crashes' = crashes + 1
    /\ event_queue' = << >>
    /\ pc' = "idle"
    /\ cur' = NoEvent
    /\ signatures' = NoSignatures
    /\ pending_signatures' = EmptyMap
    /\ killed_after_submit' = IF pc = "mark"
                              THEN killed_after_submit \cup {Key(cur)}
                              ELSE killed_after_submit
    /\ last_processed_block' = cursor
    /\ wpc' = [c \in Chains |-> "poll"]
    /\ receiver_open' = TRUE
    /\ UNCHANGED <<EnvVars, PalletVars, lock_rows, current_block, ApiVars, DbVars, submitted, confirmed, marked_ok,
                   ChainVars, cursor>>

InitWith(signature_timeouts, thresholds) ==
    /\ config \in [threshold : 1..MaxValidators, total_validators : {MaxValidators},
                    enabled : BOOLEAN, private_key : {"none", "ok", "bad"},
                    wallet : BOOLEAN, signature_timeout : signature_timeouts]
    /\ db_faulty \in BOOLEAN
    /\ event_queue = << >>
    /\ pc = "idle"
    /\ cur = NoEvent
    /\ signatures = NoSignatures
    /\ pending_signatures = EmptyMap
    /\ processed_transactions = {}
    /\ ethereum_locks = {}
    /\ polkadot_burns = {}
    /\ submitted = {}
    /\ confirmed = {}
    /\ marked_ok = {}
    /\ killed_after_submit = {}
    /\ crashes = 0
    /\ head = [c \in Chains |-> 0]
    /\ chain_events = [c \in Chains |-> {}]
    /\ cursor = [c \in Chains |-> 0]
    /\ last_processed_block = [c \in Chains |-> 0]
    /\ wpc = [c \in Chains |-> "poll"]
    /\ current_block = [c \in Chains |-> 0]
    /\ receiver_open = TRUE
    /\ signing_session = create_signing_session(config, SessionMessage, SessionId)
    /\ agg = [called |-> FALSE, partial_sigs |-> << >>, public_key_shares |-> << >>,
              result |-> [ok |-> FALSE, error |-> "none",
                          signature |-> NoSignature, signers |-> << >>]]
    /\ ret = [seq |-> 0, op |-> "none", id |-> "none", validator_id |-> 0,
              private_share |-> 0, result |-> "none"]
    /\ lock_rows = [c \in Chains |-> {}]
    /\ pallet \in {GenesisPallet(threshold) : threshold \in thresholds}
    /\ pcall = NoCall

\* The relayer started without SIGNATURE_TIMEOUT in its environment.
Init == InitWith({DefaultSignatureTimeout}, {0})

\* The relayer started with any signature_timeout.
InitReaper == InitWith(SignatureTimeouts, {0})

\* ------------------------------------------------------------------------
\* The chains and relayer/src/event_monitor.rs
\* ------------------------------------------------------------------------
\* A chain grows by one block, which holds no bridge event or one. A
\* transaction hash occurs once in a chain's history.
NewBlockWith(hashes) ==
    /\ \E c \in Chains :
         /\ head[c] < MaxHead
         /\ head' = [head EXCEPT ![c] = @ + 1]
         /\ \/ UNCHANGED chain_events
            \/ \E h \in hashes \ {e.tx_hash : e \in chain_events[c]} :
                 chain_events' = [chain_events EXCEPT ![c] =
                                     @ \cup {[block |-> head[c] + 1, tx_hash |-> h]}]
    /\ UNCHANGED <<EnvVars, PalletVars, lock_rows, receiver_open, current_block, ApiVars, event_queue, HandlerVars, pending_signatures, DbVars, HistVars,
                   WatcherVars>>

NewBlock == NewBlockWith(TxHashes)

\* Chains whose history holds as many bridge events as blocks.
BlockHashes == {HashNames[i] : i \in 1..MaxHead}

NewBlockOfMany == NewBlockWith(BlockHashes)

\* get_past_lock_events / get_past_burn_events(from_block): the events of the
\* blocks from from_block on, in block order.
RECURSIVE InBlockOrder(_)
InBlockOrder(events) ==
    IF events = {} THEN << >>
    ELSE LET first == CHOOSE e \in events : \A o \in events : e.block <= o.block
         IN <<first>> \o InBlockOrder(events \ {first})

get_past_events(c, from_block) ==
    InBlockOrder({e \in chain_events[c] : e.block >= from_block})

\* The BridgeEvent the watcher of chain c builds from a chain event.
ToBridgeEvent(c, e) ==
    [chain |-> c, tx_hash |-> IF c = "ethereum" THEN MockTxHash ELSE e.tx_hash]

\* event_sender.send(bridge_event) for each event of a poll: with the
\* receiving end gone every send fails, the error is logged and the loop goes on.
send_all(queue, bridge_events) ==
    IF receiver_open THEN queue \o bridge_events ELSE queue

\* process_ethereum_events / process_polkadot_events and the assignment of
\* last_processed_block that follows it. rpc_ok: the client calls succeed.
WatcherPoll ==
    /\ \E c \in Chains, rpc_ok \in BOOLEAN :
         /\ wpc[c] = "poll"
         /\ LET new_block == head[c]
                from_block == last_processed_block[c]
                found == get_past_events(c, from_block + 1)
            IN IF ~rpc_ok \/ new_block <= from_block
               THEN UNCHANGED <<event_queue, last_processed_block, wpc>>
               ELSE /\ Len(event_queue) + Len(found) <= MaxQueue
                    /\ event_queue' = send_all(event_queue,
                           [i \in 1..Len(found) |-> ToBridgeEvent(c, found[i])])
                    /\ last_processed_block' =
                           [last_processed_block EXCEPT ![c] = new_block]
                    /\ wpc' = [wpc EXCEPT ![c] = "persist"]
    /\ UNCHANGED <<EnvVars, PalletVars, lock_rows, receiver_open, current_block, ApiVars, HandlerVars, pending_signatures, DbVars, HistVars,
                   ChainVars, cursor>>

\* The holder of the receiving end of the event channel drops it while the
\* watcher tasks run on.
DropReceiver ==
    /\ receiver_open
    /\ receiver_open' = FALSE
    /\ UNCHANGED <<EnvVars, PalletVars, lock_rows, current_block, ApiVars, event_queue, HandlerVars,
                   pending_signatures, DbVars, HistVars, ChainVars, WatcherVars>>

\* One row of bridge_state for both chains.
CursorKey_shared(c) == "ethereum"

\* The row of bridge_state that holds chain c's cursor.
CursorKey(c) == c

\* INSERT INTO bridge_state ... ON CONFLICT (key) DO UPDATE SET value = $1
set_last_processed_block(state, c, block_number) ==
    [state EXCEPT ![CursorKey(c)] = block_number]

\* database.set_last_processed_*_block(new_block).await?: an Err of the
\* store leaves the loop and ends the watcher's task, which nothing restarts
\* while the process runs.
WatcherPersist ==
    /\ \E c \in Chains, db_ok \in DbOutcomes :
         /\ wpc[c] = "persist"
         /\ IF db_ok
            THEN /\ cursor' = set_last_processed_block(cursor, c, last_processed_block[c])
                 /\ wpc' = [wpc EXCEPT ![c] = "poll"]
            ELSE /\ wpc' = [wpc EXCEPT ![c] = "stopped"]
                 /\ UNCHANGED cursor
    /\ UNCHANGED <<EnvVars, PalletVars, lock_rows, receiver_open, current_block, ApiVars, event_queue, HandlerVars, pending_signatures, DbVars, HistVars,
                   ChainVars, last_processed_block>>

WatcherStep ==
    \/ WatcherPoll
    \/ WatcherPersist

\* The first client call of process_*_events: current_block is read; when it
\* is not above from_block the poll ends there. rpc_ok: the call succeeds.
WatcherGetBlockNumber ==
    /\ \E c \in Chains, rpc_ok \in BOOLEAN :
         /\ wpc[c] = "poll"
         /\ IF ~rpc_ok
            THEN UNCHANGED <<current_block, wpc>>
            ELSE /\ current_block' = [current_block EXCEPT ![c] = head[c]]
                 /\ wpc' = [wpc EXCEPT ![c] = IF head[c] <= last_processed_block[c]
                                              THEN "poll" ELSE "fetch"]
    /\ UNCHANGED <<EnvVars, PalletVars, lock_rows, receiver_open, signing_session, ret, agg, event_queue,
                   HandlerVars, pending_signatures, DbVars, HistVars, ChainVars,
                   cursor, last_processed_block>>

\* The second client call of process_*_events, the events sent to the queue
\* and last_processed_block = new_block. A failed call ends the poll.
WatcherFetch ==
    /\ \E c \in Chains, rpc_ok \in BOOLEAN :
         /\ wpc[c] = "fetch"
         /\ LET from_block == last_processed_block[c]
                found == get_past_events(c, from_block + 1)
            IN IF ~rpc_ok
               THEN /\ wpc' = [wpc EXCEPT ![c] = "poll"]
                    /\ UNCHANGED <<event_queue, last_processed_block>>
               ELSE /\ event_queue' = send_all(event_queue,
                           [i \in 1..Len(found) |-> ToBridgeEvent(c, found[i])])
                    /\ last_processed_block' =
                           [last_processed_block EXCEPT ![c] = current_block[c]]
                    /\ wpc' = [wpc EXCEPT ![c] = "persist"]
    /\ UNCHANGED <<EnvVars, PalletVars, lock_rows, receiver_open, current_block, ApiVars, HandlerVars, pending_signatures, DbVars,
                   HistVars, ChainVars, cursor>>

\* The watchers alone, each poll in its steps, on growing chains.
NextWatcher ==
    \/ NewBlock
    \/ WatcherGetBlockNumber
    \/ WatcherFetch
    \/ WatcherPersist
    \/ KillAndRestart

\* The watchers while the receiving end of their channel may go away.
NextPublish ==
    \/ NewBlock
    \/ WatcherGetBlockNumber
    \/ WatcherFetch
    \/ WatcherPersist
    \/ DropReceiver

\* The relayer run as a validator with a wallet for the Ethereum side.
InitValidator ==
    /\ Init
    /\ config.enabled
    /\ config.wallet

\* The watchers read nothing of the configuration but the chains' endpoints:
\* one configuration stands for all.
InitWatcher ==
    /\ InitValidator
    /\ config.threshold = MaxValidators
    /\ config.private_key = "ok"
    /\ ~db_faulty

SpecWatcher == InitWatcher /\ [][NextWatcher]_vars

SpecPublish == InitWatcher /\ [][NextPublish]_vars

CoordinatorStep ==
    \/ ReceiveEvent
    \/ RequestSignature
    \/ SignOwnPartial
    \/ GetSignatures
    \/ Submit
    \/ MarkProcessed

NextCoord ==
    \/ CoordinatorStep
    \/ SendEvent
    \/ PeerPartial
    \/ CleanupExpired
    \/ Tick
    \/ ConfirmEffect
    \/ KillAndRestart

SpecCoord == Init /\ [][NextCoord]_vars

\* ------------------------------------------------------------------------
\* The admit operations called directly, with any arguments
\* ------------------------------------------------------------------------
\* A session is stored under tx_hash, as request_*_signature does.
OpenSession ==
    /\ \E c \in Chains, tx_hash \in TxHashes :
         pending_signatures' =
             InsertSession(pending_signatures, tx_hash,
                           SignatureSession(c, tx_hash, config.threshold))
    /\ UNCHANGED <<EnvVars, PalletVars, lock_rows, receiver_open, current_block, ApiVars, event_queue, HandlerVars, DbVars, HistVars,
                   ChainVars, WatcherVars>>

\* SignatureCoordinator::add_partial_signature(tx_hash, validator_id, sig),
\* sig made with private_share over the message of tx_hash's session.
CallAddPartialSignature ==
    /\ ret.seq < MaxCalls
    /\ \E tx_hash \in TxHashes, validator_id \in Validators, private_share \in Validators,
          commitment \in Commitments :
         LET message == IF tx_hash \in DOMAIN pending_signatures
                        THEN pending_signatures[tx_hash].message
                        ELSE create_mint_message(tx_hash)
             partial_sig == WithCommitment(
                                create_partial_signature(
                                    KeyShare(validator_id, private_share), message, tx_hash),
                                commitment)
             out == SignatureCoordinator_add_partial_signature(
                        pending_signatures, tx_hash, validator_id, partial_sig)
         IN /\ pending_signatures' = out.pending
            /\ ret' = [seq |-> ret.seq + 1,
                       op |-> "SignatureCoordinator::add_partial_signature",
                       id |-> tx_hash, validator_id |-> validator_id,
                       private_share |-> private_share, result |-> out.result]
    /\ UNCHANGED <<EnvVars, PalletVars, lock_rows, receiver_open, current_block, signing_session, agg, event_queue, HandlerVars, DbVars, HistVars,
                   ChainVars, WatcherVars>>

\* SimpleThresholdManager::add_partial_signature(&mut session, validator_id, sig)
CallManagerAddPartialSignature ==
    /\ ret.seq < MaxCalls
    /\ \E validator_id \in Validators, private_share \in Validators,
          commitment \in Commitments :
         LET partial_sig == WithCommitment(
                                create_partial_signature(
                                    KeyShare(validator_id, private_share),
                                    signing_session.message, signing_session.id),
                                commitment)
             out == SimpleThresholdManager_add_partial_signature(
                        signing_session, validator_id, partial_sig)
         IN /\ signing_session' = out.session
            /\ ret' = [seq |-> ret.seq + 1,
                       op |-> "SimpleThresholdManager::add_partial_signature",
                       id |-> signing_session.id, validator_id |-> validator_id,
                       private_share |-> private_share, result |-> out.result]
    /\ UNCHANGED <<EnvVars, PalletVars, lock_rows, receiver_open, current_block, agg, event_queue, HandlerVars, pending_signatures, DbVars,
                   HistVars, ChainVars, WatcherVars>>

NextSession ==
    \/ OpenSession
    \/ CallAddPartialSignature
    \/ CallManagerAddPartialSignature
    \/ CleanupExpired
    \/ Tick

SpecSession == Init /\ [][NextSession]_vars

\* ------------------------------------------------------------------------
\* The reaper alone: sessions are stored, grow older and are cleaned up
\* ------------------------------------------------------------------------
NextReaper ==
    \/ OpenSession
    \/ Tick
    \/ CleanupExpired

SpecReaper == InitReaper /\ [][NextReaper]_vars

\* ------------------------------------------------------------------------
\* aggregate_signatures called directly, with any partials in any order
\* ------------------------------------------------------------------------
\* The lists of up to MaxValidators validators, and the orders of all of them.
ValidatorLists == UNION {[1..n -> Validators] : n \in 0..MaxValidators}

ValidatorOrders ==
    {order \in [1..MaxValidators -> Validators] :
        \A i, j \in 1..MaxValidators : order[i] = order[j] => i = j}

\* aggregate_signatures(partial_sigs, public_key_shares, message, session_id):
\* every partial is made by its validator with its own share over the
\* session's message; the public shares come in any order.
CallAggregateSignatures ==
    /\ \E signers \in ValidatorLists, order \in ValidatorOrders :
         LET partial_sigs ==
                 [i \in 1..Len(signers) |->
                     create_partial_signature(KeyShare(signers[i], signers[i]),
                                              SessionMessage, SessionId)]
             public_key_shares == [i \in 1..Len(order) |-> PublicKeyShare(order[i])]
         IN agg' = [called |-> TRUE,
                    partial_sigs |-> partial_sigs,
                    public_key_shares |-> public_key_shares,
                    result |-> aggregate_signatures(config, partial_sigs,
                                   public_key_shares, SessionMessage, SessionId)]
    /\ UNCHANGED <<EnvVars, PalletVars, lock_rows, receiver_open, current_block, signing_session, ret, event_queue, HandlerVars,
                   pending_signatures, DbVars, HistVars, ChainVars, WatcherVars>>

NextAggregate == CallAggregateSignatures

SpecAggregate == Init /\ [][NextAggregate]_vars

\* ------------------------------------------------------------------------
\* The store's operations called directly, with any arguments
\* ------------------------------------------------------------------------
\* The call of a mutating operation of the store and its Result
StoreCall(op, chain, tx_hash, block_number, db_ok) ==
    [op |-> op, chain |-> chain, tx_hash |-> tx_hash, block_number |-> block_number,
     result |-> IF db_ok THEN "Ok" ELSE "Err"]

\* mark_ethereum_tx_processed / mark_polkadot_tx_processed(tx_hash)
CallMarkProcessed ==
    /\ \E c \in Chains, tx_hash \in TxHashes \cup {MockTxHash}, db_ok \in DbOutcomes :
         /\ ret' = StoreCall("mark_tx_processed", c, tx_hash, 0, db_ok)
         /\ IF db_ok
            THEN /\ processed_transactions' =
                        mark_tx_processed(processed_transactions, c, tx_hash)
                 /\ marked_ok' = marked_ok \cup {<<c, tx_hash>>}
            ELSE UNCHANGED <<processed_transactions, marked_ok>>
    /\ UNCHANGED <<EnvVars, PalletVars, lock_rows, receiver_open, current_block,
                   signing_session, agg, event_queue, HandlerVars, pending_signatures,
                   ethereum_locks, polkadot_burns,
                   submitted, confirmed, killed_after_submit, crashes,
                   ChainVars, WatcherVars>>

NextStore == CallMarkProcessed

SpecStore == Init /\ [][NextStore]_vars

\* store_ethereum_lock / store_polkadot_burn(.., tx_hash, block_number)
CallStoreLock ==
    /\ \E c \in Chains, tx_hash \in TxHashes \cup {MockTxHash}, block_number \in 1..MaxHead,
          db_ok \in DbOutcomes :
         /\ ret' = StoreCall("store_lock", c, tx_hash, block_number, db_ok)
         /\ lock_rows' = IF db_ok THEN store_lock(lock_rows, c, tx_hash, block_number)
                         ELSE lock_rows
    /\ UNCHANGED <<EnvVars, PalletVars, receiver_open, current_block,
                   signing_session, agg, event_queue, HandlerVars, pending_signatures,
                   DbVars, HistVars, ChainVars, WatcherVars>>

\* set_last_processed_ethereum_block / set_last_processed_polkadot_block(block_number)
CallSetLastProcessedBlock ==
    /\ \E c \in Chains, block_number \in 0..MaxHead, db_ok \in DbOutcomes :
         /\ ret' = StoreCall("set_last_processed_block", c, "none", block_number, db_ok)
         /\ cursor' = IF db_ok THEN set_last_processed_block(cursor, c, block_number)
                      ELSE cursor
    /\ UNCHANGED <<EnvVars, PalletVars, lock_rows, receiver_open, current_block,
                   signing_session, agg, event_queue, HandlerVars, pending_signatures,
                   DbVars, HistVars, ChainVars, last_processed_block, wpc>>

NextDatabase ==
    \/ CallStoreLock
    \/ CallMarkProcessed
    \/ CallSetLastProcessedBlock

\* The store under one relayer, its queries succeeding.
InitDatabase ==
    /\ InitValidator
    /\ config.threshold = 1
    /\ config.private_key = "ok"
    /\ ~db_faulty

SpecDatabase == InitDatabase /\ [][NextDatabase]_vars

\* ------------------------------------------------------------------------
\* The pallet's dispatchables called with any arguments
\* ------------------------------------------------------------------------
PalletUnchanged ==
    UNCHANGED <<EnvVars, lock_rows, receiver_open, current_block, ApiVars, event_queue,
                HandlerVars, pending_signatures, DbVars, HistVars, ChainVars, WatcherVars>>

CallRegisterToken ==
    /\ \E origin \in Origins, ethereum_address \in EthereumAddresses,
          asset_id \in AssetIds, assets_ok \in BOOLEAN :
         LET r == register_token(pallet, origin, ethereum_address, asset_id, assets_ok) IN
         /\ pallet' = r.pallet
         /\ pcall' = [NoCall EXCEPT !.op = "register_token", !.result = r.result,
                                    !.ethereum_address = ethereum_address,
                                    !.asset_id = asset_id]
    /\ PalletUnchanged

CallMintTokens ==
    /\ Len(pallet.mint_requests) < MaxRequests
    /\ \E origin \in MintOrigins, recipient \in Accounts, ethereum_address \in EthereumAddresses,
          amount \in Amounts, ethereum_tx_hash \in EthereumTxHashes,
          signatures_len \in 0..MaxValidators, assets_ok \in BOOLEAN :
         LET r == mint_tokens(pallet, origin, recipient, ethereum_address, amount,
                              ethereum_tx_hash, signatures_len, assets_ok) IN
         /\ pallet' = r.pallet
         /\ pcall' = [NoCall EXCEPT !.op = "mint_tokens", !.result = r.result,
                                    !.ethereum_address = ethereum_address,
                                    !.amount = amount,
                                    !.ethereum_tx_hash = ethereum_tx_hash,
                                    !.signatures = signatures_len]
    /\ PalletUnchanged

CallBurnTokens ==
    /\ Len(pallet.burn_requests) < MaxRequests
    /\ \E origin \in BurnOrigins, asset_id \in AssetIds, amount \in Amounts,
          assets_ok \in BOOLEAN :
         LET r == burn_tokens(pallet, origin, asset_id, amount, assets_ok) IN
         /\ pallet' = r.pallet
         /\ pcall' = [NoCall EXCEPT !.op = "burn_tokens", !.result = r.result,
                                    !.asset_id = asset_id, !.amount = amount]
    /\ PalletUnchanged

NextPallet ==
    \/ CallRegisterToken
    \/ CallMintTokens
    \/ CallBurnTokens

\* A chain whose Threshold was put to any value, under one relayer.
InitPallet ==
    /\ InitWith({DefaultSignatureTimeout}, 0..MaxValidators)
    /\ config.enabled
    /\ config.wallet
    /\ config.threshold = 1
    /\ config.private_key = "ok"
    /\ ~db_faulty

SpecPallet == InitPallet /\ [][NextPallet]_vars

Next ==
    \/ CoordinatorStep
    \/ WatcherStep
    \/ NewBlock
    \/ PeerPartial
    \/ KillAndRestart

Spec == Init /\ [][Next]_vars

\* A validator that is its own quorum, with a sound store.
InitOrder ==
    /\ InitValidator
    /\ config.threshold = 1
    /\ config.private_key = "ok"
    /\ ~db_faulty

\* The relayer on chains with several bridge events each.
NextOrder ==
    \/ NewBlockOfMany
    \/ WatcherStep
    \/ CoordinatorStep
    \/ KillAndRestart

SpecOrder == InitOrder /\ [][NextOrder]_vars

\* The coordinator's loop and the watcher tasks are tokio tasks that keep
\* being scheduled while the process lives.
\* The coordinator given events of several transactions, under any key and store.
SendEventOfMany == SendEventWith(BlockHashes)

NextLocal ==
    \/ SendEventOfMany
    \/ CoordinatorStep
    \/ PeerPartial

\* A validator that is its own quorum, with any key and any store.
InitLocal ==
    /\ InitValidator
    /\ config.threshold = 1

SpecLocal == InitLocal /\ [][NextLocal]_vars

\* ------------------------------------------------------------------------
\* The constructors and validators of a threshold configuration, called
\* with any (threshold, total_validators)
\* ------------------------------------------------------------------------
ConfigCall(op, threshold, total_validators, r) ==
    [op |-> op, threshold |-> threshold, total_validators |-> total_validators,
     ok |-> r.ok, error |-> r.error]

OnlyRetChanges ==
    UNCHANGED <<EnvVars, PalletVars, lock_rows, receiver_open, current_block,
                signing_session, agg, event_queue, HandlerVars, pending_signatures,
                DbVars, HistVars, ChainVars, WatcherVars>>

CallThresholdConfigNew ==
    /\ \E k \in 0..MaxValidators + 1, n \in 0..MaxValidators + 1 :
         ret' = ConfigCall("ThresholdConfig::new", k, n, ThresholdConfig_new(k, n))
    /\ OnlyRetChanges

CallThresholdConfigValidate ==
    /\ \E k \in 0..MaxValidators + 1, n \in 0..MaxValidators + 1 :
         ret' = ConfigCall("ThresholdConfig::validate", k, n, ThresholdConfig_validate(k, n))
    /\ OnlyRetChanges

CallSimpleThresholdManagerNew ==
    /\ \E k \in 0..MaxValidators + 1, n \in 0..MaxValidators + 1 :
         ret' = ConfigCall("SimpleThresholdManager::new", k, n,
                           SimpleThresholdManager_new(k, n))
    /\ OnlyRetChanges

CallRelayerConfigValidate ==
    /\ \E k \in 0..MaxValidators + 1, n \in 0..MaxValidators + 1,
          endpoints_ok \in BOOLEAN, database_ok \in BOOLEAN :
         ret' = ConfigCall("RelayerConfig::validate", k, n,
                           RelayerConfig_validate(endpoints_ok, k, n, database_ok))
    /\ OnlyRetChanges

NextConfig ==
    \/ CallThresholdConfigNew
    \/ CallThresholdConfigValidate
    \/ CallSimpleThresholdManagerNew
    \/ CallRelayerConfigValidate

SpecConfig == Init /\ [][NextConfig]_vars

\* ------------------------------------------------------------------------
\* relayer/src/bin/relayer.rs: the shutdown signal
\* ------------------------------------------------------------------------
\* tokio::select! completes on the signal and drops the future of
\* coordinator.start(): handle_event is cut at the await it stands at, the
\* event it was handling stays as it is. The spawned watchers run on.
ShutdownSignal ==
    /\ pc \notin {"signalled", "closed"}
    /\ pc' = "signalled"
    /\ UNCHANGED <<EnvVars, PalletVars, lock_rows, receiver_open, current_block, ApiVars,
                   event_queue, cur, signatures, pending_signatures, DbVars, HistVars,
                   ChainVars, WatcherVars>>

\* coordinator.shutdown(): database.close(), then main returns.
Shutdown ==
    /\ pc = "signalled"
    /\ pc' = "closed"
    /\ UNCHANGED <<EnvVars, PalletVars, lock_rows, receiver_open, current_block, ApiVars,
                   event_queue, cur, signatures, pending_signatures, DbVars, HistVars,
                   ChainVars, WatcherVars>>

NextShutdown ==
    \/ SendEvent
    \/ CoordinatorStep
    \/ ShutdownSignal
    \/ Shutdown

SpecShutdown == InitValidator /\ [][NextShutdown]_vars

\* The watchers, each poll in its steps and its sends as the code makes
\* them, and the coordinator taking the events.
NextQueue ==
    \/ NewBlockOfMany
    \/ WatcherGetBlockNumber
    \/ WatcherFetch
    \/ WatcherPersist
    \/ CoordinatorStep

SpecQueue == InitOrder /\ [][NextQueue]_vars

\* The watchers on growing chains, over a store whose queries may fail.
NextRetry ==
    \/ NewBlock
    \/ WatcherGetBlockNumber
    \/ WatcherFetch
    \/ WatcherPersist

InitRetry ==
    /\ InitValidator
    /\ config.threshold = MaxValidators
    /\ config.private_key = "ok"

SpecRetry == InitRetry /\ [][NextRetry]_vars

\* ------------------------------------------------------------------------
\* Signing in one session and verifying in another
\* ------------------------------------------------------------------------
\* Session ids (&str) and messages (&[u8]) a caller may pass: any bytes.
SessionIds == {"s1", "s11", "s2"}

SignedMessages == {"1:m", ":m", "x"}

\* create_partial_signature for (session_id, message), aggregate_signatures on
\* that partial, then verify_signature for (verify_session_id, verify_message)
\* under the signer's public key.
CallSignAndVerify ==
    /\ \E validator_id \in Validators, session_id \in SessionIds, message \in SignedMessages,
          verify_session_id \in SessionIds, verify_message \in SignedMessages :
         LET partial_sig == create_partial_signature(
                                KeyShare(validator_id, validator_id), message, session_id)
             aggregated == aggregate_signatures(config, <<partial_sig>>,
                               <<PublicKeyShare(validator_id)>>, message, session_id)
         IN ret' = [op |-> "verify_signature", validator_id |-> validator_id,
                    session_id |-> session_id, message |-> message,
                    verify_session_id |-> verify_session_id,
                    verify_message |-> verify_message,
                    aggregated |-> aggregated.ok,
                    verified |-> /\ aggregated.ok
                                 /\ verify_signature(aggregated, verify_message,
                                        PublicKeyShare(validator_id).public_share,
                                        verify_session_id)]
    /\ OnlyRetChanges

NextHash == CallSignAndVerify

SpecHash == InitOrder /\ [][NextHash]_vars

FairSpec ==
    /\ InitValidator
    /\ [][Next]_vars
    /\ WF_vars(CoordinatorStep)
    /\ WF_vars(WatcherStep)

\* ------------------------------------------------------------------------
\* Properties of the coordinator (SpecCoord)
\* ------------------------------------------------------------------------
\* The number of validators with a partial in the session of tx_hash.
SessionCount(tx_hash) ==
    IF tx_hash \in DOMAIN pending_signatures
    THEN Cardinality(DOMAIN pending_signatures[tx_hash].partial_signatures)
    ELSE 0

\* The handler's step that stores a new session / calls mint or unlock with Ok.
OpensSession == pc = "request" /\ pc' \in {"sign", "get"}

SubmitsEffect == pc = "submit" /\ pc' = "mark"

\* C1: once an event was handled through to a successful mark_*_processed,
\* handling an event with the same chain and tx_hash again submits nothing,
\* opens no session and leaves the chain's processed count as it was.
C1_ReplayHasNoEffect ==
    [][(cur # NoEvent /\ Key(cur) \in marked_ok)
        => /\ ~OpensSession
           /\ ~SubmitsEffect
           /\ count_processed_txs(processed_transactions', cur.chain)
                  = count_processed_txs(processed_transactions, cur.chain)]_vars

\* C2: a row of the processed table exists only for an event whose effect on
\* the other chain has been confirmed.
C2_ProcessedOnlyAfterConfirmed ==
    \A r \in processed_transactions : <<r.chain, r.tx_hash>> \in confirmed

\* C7: the handler holds submittable signatures, and goes on to submit, only
\* with partials from at least k distinct validators; when the session holds
\* fewer than k, get_*_signatures gives None and the handler does not go on.
C7_SubmitOnlyWithThreshold ==
    /\ [](pc \in {"submit", "mark"}
            => Cardinality(signatures.signers) >= config.threshold)
    /\ [][(pc = "get" /\ SessionCount(cur.tx_hash) < config.threshold)
            => (pc' \notin {"submit", "mark"} /\ submitted' = submitted)]_vars

\* C7 witness: with k = n a submission went through, every validator's
\* partial being in the handler's signatures.
C7_Witness ==
    /\ config.threshold = MaxValidators
    /\ pc = "mark"
    /\ signatures.signers = Validators

\* ------------------------------------------------------------------------
\* Properties of the store (SpecStore)
\* ------------------------------------------------------------------------
\* C4: after mark_*_tx_processed(h) returned Ok for chain c, is_*_tx_processed(h)
\* of chain c is true, whatever other rows the table holds.
C4_MarkedIsProcessed ==
    \A key \in marked_ok : is_tx_processed(processed_transactions, key[1], key[2])

\* C24: the processed set never loses an element: whatever is_*_tx_processed
\* reports as processed, it reports as processed after every store operation.
C24_ProcessedIsMonotone ==
    [][\A c \in Chains, tx_hash \in TxHashes \cup {MockTxHash} :
          is_tx_processed(processed_transactions, c, tx_hash)
              => is_tx_processed(processed_transactions', c, tx_hash)]_vars

\* C24 witness: a hash processed for one chain was marked again, for the
\* other chain too, and is still processed for the first.
C24_Witness ==
    \E tx_hash \in TxHashes, c \in Chains :
        /\ \A other \in Chains : <<other, tx_hash>> \in marked_ok
        /\ is_tx_processed(processed_transactions, c, tx_hash)

\* ------------------------------------------------------------------------
\* Properties of the admit operations (SpecSession)
\* ------------------------------------------------------------------------
\* The step is a call of an admit operation; ret' holds its arguments.
AdmitCall == ret'.seq = ret.seq + 1

CoordinatorCall == AdmitCall /\ ret'.op = "SignatureCoordinator::add_partial_signature"

\* Before the call, the session addressed by it exists / holds a partial of
\* the validator named in it.
SessionExists ==
    IF ret'.op = "SignatureCoordinator::add_partial_signature"
    THEN ret'.id \in DOMAIN pending_signatures
    ELSE TRUE

HadPartial ==
    IF ret'.op = "SignatureCoordinator::add_partial_signature"
    THEN /\ ret'.id \in DOMAIN pending_signatures
         /\ ret'.validator_id \in DOMAIN pending_signatures[ret'.id].partial_signatures
    ELSE ret'.validator_id \in DOMAIN signing_session.partial_signatures

PartialsUnchanged ==
    /\ pending_signatures' = pending_signatures
    /\ signing_session' = signing_session

\* C8: a partial made with another share than the named validator's own is
\* rejected by both admit operations with an error other than
\* DuplicateSignature, and no session's partials change.
C8_ForgedPartialRejected ==
    [][(AdmitCall /\ SessionExists /\ ret'.private_share # ret'.validator_id)
        => (ret'.result \notin {"Ok", "DuplicateSignature"} /\ PartialsUnchanged)]_vars

\* C9: when the named validator already has a partial in the session, both
\* admit operations fail with DuplicateSignature and change nothing.
C9_DuplicateRejected ==
    [][(AdmitCall /\ HadPartial)
        => (ret'.result = "DuplicateSignature" /\ PartialsUnchanged)]_vars

\* C10: SignatureCoordinator::add_partial_signature fails with SessionNotFound
\* when no session is stored under the id, and it reports Ok only with the
\* partial stored.
C10_AbsentSessionIsAnError ==
    [][CoordinatorCall
        => /\ (ret'.id \notin DOMAIN pending_signatures
                  => ret'.result = "SessionNotFound")
           /\ (ret'.result = "Ok"
                  => /\ ret'.id \in DOMAIN pending_signatures'
                     /\ ret'.validator_id
                            \in DOMAIN pending_signatures'[ret'.id].partial_signatures)]_vars

\* ------------------------------------------------------------------------
\* Properties of the whole relayer (FairSpec)
\* ------------------------------------------------------------------------
Processed(key) == is_tx_processed(processed_transactions, key[1], key[2])

\* The event of key was taken by the handler and stored.
Delivered(key) ==
    key[2] \in (IF key[1] = "ethereum" THEN ethereum_locks ELSE polkadot_burns)

\* Nothing in the configuration or the store keeps a handling from succeeding.
Provisioned ==
    /\ config.enabled
    /\ config.private_key = "ok"
    /\ config.wallet
    /\ ~db_faulty

\* C3: an event whose handling was killed between the submission and the
\* mark is, after the restart, eventually marked processed.
C3_KilledAfterSubmitIsMarked ==
    (Provisioned /\ config.threshold = 1)
        => \A key \in Keys : (key \in killed_after_submit) ~> Processed(key)

\* C5: in validator mode, once the session of a delivered event holds the own
\* partial and partials of k validators in all, the effect is eventually
\* submitted and the event marked processed.
C5_ReadySessionIsSubmitted ==
    (Provisioned /\ [](crashes = 0))
        => \A key \in Keys :
              (/\ Delivered(key)
               /\ SessionCount(key[2]) >= config.threshold
               /\ SelfId \in DOMAIN pending_signatures[key[2]].partial_signatures)
                  ~> (key \in submitted /\ Processed(key))

\* C6: an event whose handling returned without marking it is taken up by
\* the handler again.
C6_UnfinishedIsHandledAgain ==
    [](crashes = 0)
        => \A key \in Keys :
              (Delivered(key) /\ ~Processed(key) /\ pc = "idle") ~> (Key(cur) = key)

\* ------------------------------------------------------------------------
\* Properties of aggregate_signatures (SpecAggregate)
\* ------------------------------------------------------------------------
\* C11: an AggregatedSignature returned for at least k partials verifies under
\* the combined public key, whatever the partials and the order of the shares.
C11_AggregateVerifies ==
    (agg.called /\ agg.result.ok)
        => verify_signature(agg.result, SessionMessage,
                            compute_combined_public_key(agg.public_key_shares), SessionId)

\* C12: aggregate_signatures fails with InsufficientSignatures exactly when it
\* is given fewer than k partials, and then returns no signature.
C12_InsufficientSignatures ==
    agg.called
        => /\ (Len(agg.partial_sigs) < config.threshold
                  <=> agg.result.error = "InsufficientSignatures")
           /\ (Len(agg.partial_sigs) < config.threshold => ~agg.result.ok)
           /\ (Len(agg.partial_sigs) >= config.threshold => agg.result.ok)

\* C12 witness: a call with k - 1 >= 1 partials was refused.
C12_Witness ==
    /\ agg.called
    /\ Len(agg.partial_sigs) >= 1
    /\ Len(agg.partial_sigs) = config.threshold - 1
    /\ agg.result.error = "InsufficientSignatures"

\* One list is a permutation of the other.
IsPermutation(a, b) ==
    /\ Len(a) = Len(b)
    /\ \E f \in [1..Len(a) -> 1..Len(a)] :
         /\ \A i, j \in 1..Len(a) : f[i] = f[j] => i = j
         /\ \A i \in 1..Len(a) : b[i] = a[f[i]]

SignerSet(result) == {result.signers[i] : i \in 1..Len(result.signers)}

\* C13: two calls whose lists of at least k partials are permutations of each
\* other return the same signature and the same set of signers.
C13_PermutationInvariant ==
    [][(/\ agg.called
        /\ agg'.called
        /\ Len(agg.partial_sigs) >= config.threshold
        /\ IsPermutation(agg.partial_sigs, agg'.partial_sigs))
        => /\ agg'.result.signature = agg.result.signature
           /\ SignerSet(agg'.result) = SignerSet(agg.result)]_vars

\* ------------------------------------------------------------------------
\* Nonce commitments of admitted partials (SpecSession)
\* ------------------------------------------------------------------------
CommitmentsOf(partials) == {partials[v].commitment : v \in DOMAIN partials}

\* C14: in every session, the manager's and the coordinator's, all admitted
\* partials carry the same commitment: one that differs from the commitment
\* already in the session is never admitted.
C14_CommitmentsAgree ==
    /\ Cardinality(CommitmentsOf(signing_session.partial_signatures)) <= 1
    /\ \A tx_hash \in DOMAIN pending_signatures :
         Cardinality(CommitmentsOf(pending_signatures[tx_hash].partial_signatures)) <= 1

\* C15: once a session holds k partials, the result of get_mint_signatures and
\* of get_unlock_signatures for it stays what it was when a further validator's
\* own partial is admitted.
C15_ReadyResultIsStable ==
    [][(/\ CoordinatorCall
        /\ ret'.private_share = ret'.validator_id
        /\ ~HadPartial
        /\ get_mint_signatures(pending_signatures, ret'.id).some)
        => /\ get_mint_signatures(pending_signatures', ret'.id)
                = get_mint_signatures(pending_signatures, ret'.id)
           /\ get_unlock_signatures(pending_signatures', ret'.id)
                = get_unlock_signatures(pending_signatures, ret'.id)]_vars

\* ------------------------------------------------------------------------
\* The reaper (SpecReaper)
\* ------------------------------------------------------------------------
\* C16: the reaper removes a session only when its age exceeds the configured
\* signature_timeout: every session that leaves the map of pending sessions
\* was older than signature_timeout.
C16_RemovedExactlyWhenTimedOut ==
    [][\A tx_hash \in DOMAIN pending_signatures :
          tx_hash \notin DOMAIN pending_signatures'
              => Elapsed(pending_signatures[tx_hash]) > config.signature_timeout]_vars

\* ------------------------------------------------------------------------
\* The watchers (SpecWatcher)
\* ------------------------------------------------------------------------
\* The chain events a queue entry of chain c can stand for.
EventsOf(entry) ==
    {e \in chain_events[entry.chain] :
        entry.chain = "ethereum" \/ e.tx_hash = entry.tx_hash}

Published(c) == {i \in 1..Len(event_queue) : event_queue[i].chain = c}

\* C17: the persisted cursor of a chain, once a watcher has written it, never
\* exceeds head - confirmations.
C17_CursorBelowSafe ==
    \A c \in Chains : cursor[c] + Confirmations <= head[c] \/ cursor[c] = 0

\* C18: an event of block b is not put on the event queue while
\* head - confirmations < b.
C18_PublishedOnlyWhenSafe ==
    [][\A i \in (Len(event_queue) + 1)..Len(event_queue') :
          \A e \in EventsOf(event_queue'[i]) :
              e.block + Confirmations <= head[event_queue'[i].chain]]_vars

\* C19: while the process runs, no chain event is on the event queue twice,
\* and every event of a block at or below the persisted cursor is on it.
C19_PublishedExactlyOnce ==
    crashes = 0
        => \A c \in Chains :
              /\ Cardinality(Published(c)) <= Cardinality(chain_events[c])
              /\ \A e \in chain_events[c] :
                    e.block <= cursor[c] => Published(c) # {}

\* C20: the persisted cursor of a chain never decreases.
C20_CursorNeverDecreases ==
    [][\A c \in Chains : cursor'[c] >= cursor[c]]_vars

\* C20 witness: after a restart a watcher has published an event and
\* persisted the cursor beyond the one it started from.
C20_Witness ==
    /\ crashes > 0
    /\ \E c \in Chains :
         /\ Published(c) # {}
         /\ cursor[c] = MaxHead
         /\ last_processed_block[c] = cursor[c]
         /\ wpc[c] = "poll"

\* ------------------------------------------------------------------------
\* Publication failures (SpecPublish)
\* ------------------------------------------------------------------------
\* C21: a watcher's cursor is never past an event that was not published:
\* every chain event of a block at or below the persisted cursor is on the
\* event queue.
C21_CursorNotPastUnpublished ==
    \A c \in Chains :
        \A e \in chain_events[c] :
            e.block <= cursor[c]
                => \E i \in Published(c) : e \in EventsOf(event_queue[i])

\* ------------------------------------------------------------------------
\* Order and identity of events (SpecOrder)
\* ------------------------------------------------------------------------
\* The block of the burn with this hash on the Polkadot chain.
BurnBlock(tx_hash) ==
    (CHOOSE e \in chain_events["polkadot"] : e.tx_hash = tx_hash).block

\* process_events takes the next event off the queue.
TakesEvent == pc = "idle" /\ event_queue # << >> /\ event_queue' = Tail(event_queue)

\* C22: the coordinator takes the events of a chain in ascending block order:
\* when it takes a burn, no burn of a higher block has been taken and stored
\* before.
C22_TakenInBlockOrder ==
    [][(TakesEvent /\ Head(event_queue).chain = "polkadot")
        => \A tx_hash \in polkadot_burns :
              BurnBlock(tx_hash) <= BurnBlock(Head(event_queue).tx_hash)]_vars

\* C23: two different events of a chain that a watcher has published carry
\* different tx_hash keys in their BridgeEvents.
C23_DistinctEventsDistinctKeys ==
    \A c \in Chains :
        \A e1, e2 \in {e \in chain_events[c] : e.block <= last_processed_block[c]} :
            e1 # e2 => ToBridgeEvent(c, e1).tx_hash # ToBridgeEvent(c, e2).tx_hash

\* ------------------------------------------------------------------------
\* Properties of the pallet (SpecPallet)
\* ------------------------------------------------------------------------
\* The mint requests recorded for ethereum_tx_hash
MintsOf(p, ethereum_tx_hash) ==
    {i \in 1..Len(p.mint_requests) : p.mint_requests[i].ethereum_tx_hash = ethereum_tx_hash}

PassesEarlierChecks(p, call) ==
    /\ call.ethereum_tx_hash \notin p.processed_ethereum_txs
    /\ call.ethereum_address \in DOMAIN p.bridged_tokens
    /\ p.bridged_tokens[call.ethereum_address].is_active
    /\ call.amount # 0

RECURSIVE SumAmounts(_, _)
SumAmounts(requests, asset_id) ==
    IF requests = << >> THEN 0
    ELSE (IF Head(requests).asset_id = asset_id THEN Head(requests).amount ELSE 0)
         + SumAmounts(Tail(requests), asset_id)

\* The sum of the balances of the accounts
RECURSIVE SumBalances(_, _)
SumBalances(balances, accounts) ==
    IF accounts = {} THEN 0
    ELSE LET a == CHOOSE x \in accounts : TRUE IN
         balances[a] + SumBalances(balances, accounts \ {a})

\* total_supply of every bridged token is what was minted less what was
\* burned of its asset, and what the holders of the asset have.
SupplyAccounted(p) ==
    \A ethereum_address \in DOMAIN p.bridged_tokens :
        LET bridged_token == p.bridged_tokens[ethereum_address] IN
        /\ bridged_token.total_supply =
               SumAmounts(p.mint_requests, bridged_token.asset_id)
               - SumAmounts(p.burn_requests, bridged_token.asset_id)
        /\ bridged_token.total_supply =
               SumBalances(p.assets[bridged_token.asset_id], Accounts)

\* C27: after every call of the pallet each total_supply equals the sum of
\* the amounts minted less the sum burned for that token and equals the sum
\* of the holders' balances of its asset, and a call that fails leaves
\* every total_supply and every balance as it was.
C27_SupplyAccounted ==
    [][/\ SupplyAccounted(pallet')
       /\ pcall'.result # "Ok"
              => /\ pallet'.bridged_tokens = pallet.bridged_tokens
                 /\ pallet'.assets = pallet.assets]_vars

\* Two mints and a burn of one token happened, and a later call failed.
C27_Witness ==
    /\ Len(pallet.mint_requests) = MaxRequests
    /\ pallet.burn_requests # << >>
    /\ \E ethereum_address \in DOMAIN pallet.bridged_tokens :
          /\ pallet.bridged_tokens[ethereum_address].total_supply = 1
          /\ pallet.bridged_tokens[ethereum_address].asset_id
                 = pallet.burn_requests[1].asset_id
    /\ pcall.op = "burn_tokens"
    /\ pcall.result = "InsufficientBalance"

\* BridgedTokens and AssetToEthereum are inverse to each other, so that
\* neither an address nor an asset id is mapped twice.
TokenMapBijective(p) ==
    /\ \A ethereum_address \in DOMAIN p.bridged_tokens :
          LET asset_id == p.bridged_tokens[ethereum_address].asset_id IN
          /\ asset_id \in DOMAIN p.asset_to_ethereum
          /\ p.asset_to_ethereum[asset_id] = ethereum_address
    /\ \A asset_id \in DOMAIN p.asset_to_ethereum :
          LET ethereum_address == p.asset_to_ethereum[asset_id] IN
          /\ ethereum_address \in DOMAIN p.bridged_tokens
          /\ p.bridged_tokens[ethereum_address].asset_id = asset_id

\* The call registers an address or an asset id that is already mapped.
WouldBreakTokenMap(p, call) ==
    \/ call.ethereum_address \in DOMAIN p.bridged_tokens
    \/ call.asset_id \in DOMAIN p.asset_to_ethereum

\* C28: after every call BridgedTokens and AssetToEthereum are inverse to
\* each other (no address with two asset ids, no asset id with two
\* addresses), and a register_token call for an address or an asset id that
\* is already mapped fails and leaves the whole storage as it was.
C28_TokenMapBijective ==
    [][/\ TokenMapBijective(pallet')
       /\ (pcall'.op = "register_token" /\ WouldBreakTokenMap(pallet, pcall'))
              => pcall'.result # "Ok" /\ pallet' = pallet]_vars

\* Both tokens are registered and root's call to map a used asset id to a
\* used address again was rejected.
C28_Witness ==
    /\ DOMAIN pallet.bridged_tokens = EthereumAddresses
    /\ pcall.op = "register_token"
    /\ pcall.result = "TokenAlreadyRegistered"
    /\ pallet.bridged_tokens[pcall.ethereum_address].asset_id # pcall.asset_id

\* ------------------------------------------------------------------------
\* Properties of the store's mutating operations (SpecDatabase)
\* ------------------------------------------------------------------------
\* The tables the mutating operations write
StoreState(rows, table, state) ==
    [lock_rows |-> rows, processed_transactions |-> table, cursor |-> state]

\* The store after the call
ApplyStoreCall(st, call) ==
    IF call.result # "Ok" THEN st
    ELSE IF call.op = "store_lock"
    THEN [st EXCEPT !.lock_rows =
                        store_lock(@, call.chain, call.tx_hash, call.block_number)]
    ELSE IF call.op = "mark_tx_processed"
    THEN [st EXCEPT !.processed_transactions =
                        mark_tx_processed(@, call.chain, call.tx_hash)]
    ELSE [st EXCEPT !.cursor = set_last_processed_block(@, call.chain, call.block_number)]

\* The call stores a lock or burn whose tx_hash has a row, or marks a
\* (chain, tx_hash) that is processed.
RepeatsKey(st, call) ==
    \/ /\ call.op = "store_lock"
       /\ \E r \in st.lock_rows[call.chain] : r.tx_hash = call.tx_hash
    \/ /\ call.op = "mark_tx_processed"
       /\ is_tx_processed(st.processed_transactions, call.chain, call.tx_hash)

InHandler == pc # "idle" \/ (event_queue # << >> /\ event_queue' = Tail(event_queue))

\* handle_event returns in this step without the event marked processed: it
\* returned an Err, or Ok(()) for want of signatures or for a processed event.
HandlerReturnsUnmarked ==
    /\ InHandler
    /\ cur' = NoEvent
    /\ processed_transactions' = processed_transactions

\* The event handle_event is called with
HandledEvent == IF pc = "idle" THEN Head(event_queue) ELSE cur

\* C30: when the handling of an event ends without the event marked, by an
\* error (InvalidKeyShare, a failed submission, a store error) or otherwise,
\* the event loop is back at its receive, the events behind it are still in
\* the channel, and the session of every other tx_hash is as it was.
C30_ErrorIsLocal ==
    [][HandlerReturnsUnmarked =>
         /\ pc' = "idle"
         /\ event_queue' = IF pc = "idle" THEN Tail(event_queue) ELSE event_queue
         /\ \A tx_hash \in DOMAIN pending_signatures :
               tx_hash # HandledEvent.tx_hash
                   => /\ tx_hash \in DOMAIN pending_signatures'
                      /\ pending_signatures'[tx_hash] = pending_signatures[tx_hash]]_vars

\* With a key share that does not parse, the event of one tx_hash failed and
\* left its session, then the event of another was taken and failed too,
\* and a third event waits in the channel of the idle loop.
C30_Witness ==
    /\ config.private_key = "bad"
    /\ pc = "idle"
    /\ DOMAIN pending_signatures = BlockHashes
    /\ \A tx_hash \in BlockHashes : pending_signatures[tx_hash].partial_signatures = EmptyMap
    /\ event_queue # << >>

\* ------------------------------------------------------------------------
\* Properties of the threshold configuration (SpecConfig)
\* ------------------------------------------------------------------------
ConfigOps ==
    {"ThresholdConfig::new", "ThresholdConfig::validate",
     "SimpleThresholdManager::new", "RelayerConfig::validate"}

\* C31: ThresholdConfig::new, ThresholdConfig::validate,
\* SimpleThresholdManager::new and RelayerConfig::validate each return an
\* error for a threshold of 0 or above total_validators; for every other
\* (threshold, total_validators) the three of the threshold crate return Ok
\* and RelayerConfig::validate returns no error about the threshold, and the
\* running coordinator's threshold is at least 1 and at most total_validators.
C31_InvalidThresholdRejected ==
    /\ 1 <= config.threshold /\ config.threshold <= config.total_validators
    /\ ret.op \in ConfigOps =>
         LET valid == 1 <= ret.threshold /\ ret.threshold <= ret.total_validators IN
         /\ ~valid => ~ret.ok
         /\ ~valid => ret.error \in {"InvalidThreshold", "Config(endpoint)",
                                      "Config(threshold zero)",
                                      "Config(threshold above total)"}
         /\ valid => ret.error \in {"none", "Config(endpoint)", "Config(database)"}
         /\ (valid /\ ret.op # "RelayerConfig::validate") => ret.ok

\* The manager was refused a threshold of zero.
C31_Witness ==
    /\ ret.op = "SimpleThresholdManager::new"
    /\ ret.threshold = 0
    /\ ret.total_validators = MaxValidators
    /\ ~ret.ok

\* ------------------------------------------------------------------------
\* Properties of the shutdown (SpecShutdown)
\* ------------------------------------------------------------------------
\* C32: the store is closed only when no event is being handled: at the
\* close the handler holds no event, its signing session having been
\* drained before.
C32_ClosedOnlyWhenDrained ==
    pc = "closed" => cur = NoEvent

\* ------------------------------------------------------------------------
\* Properties of the event channel (SpecQueue)
\* ------------------------------------------------------------------------
\* C33: the channel between the watchers and the coordinator never holds
\* more than a fixed number of events, here MaxQueue: a watcher that finds
\* that many waiting sends nothing until the coordinator has taken one.
C33_QueueBounded ==
    Len(event_queue) <= MaxQueue

\* ------------------------------------------------------------------------
\* Properties of request_mint_signature / request_unlock_signature (SpecCoord)
\* ------------------------------------------------------------------------
\* C34: a request for a tx_hash that has a session joins it: every partial
\* the session holds is kept and its age (the time since created_at) is not
\* reset.
C34_RequestJoinsLiveSession ==
    [][(OpensSession /\ cur.tx_hash \in DOMAIN pending_signatures)
          => LET before == pending_signatures[cur.tx_hash]
                 after == pending_signatures'[cur.tx_hash]
             IN /\ \A v \in DOMAIN before.partial_signatures :
                      /\ v \in DOMAIN after.partial_signatures
                      /\ after.partial_signatures[v] = before.partial_signatures[v]
                /\ after.age = before.age]_vars

\* ------------------------------------------------------------------------
\* Properties of the watchers' loop (SpecRetry)
\* ------------------------------------------------------------------------
\* C35: no failure of an RPC call or of the store ends a watcher: its loop
\* is always at one of its steps, from which it polls again.
C35_WatcherNeverStops ==
    \A c \in Chains : wpc[c] \in {"poll", "fetch", "persist"}

\* ------------------------------------------------------------------------
\* Crashes of the relayer (SpecOrder)
\* ------------------------------------------------------------------------
\* The published entries that wait on the queue or are in the handler.
Unfinished ==
    {event_queue[i] : i \in 1..Len(event_queue)} \cup (IF cur = NoEvent THEN {} ELSE {cur})

\* C36: a crash loses no published event: when the process is killed while an
\* event covered by the persisted cursor is published and not yet marked
\* processed, then after the restart the event is on the queue again or its
\* block is still ahead of the watcher, which publishes it again.
C36_CrashLosesNoEvent ==
    [][(crashes' = crashes + 1)
          => \A entry \in Unfinished :
                \A e \in EventsOf(entry) :
                    (e.block <= cursor[entry.chain] /\ ~Processed(Key(entry)))
                        => \/ \E i \in 1..Len(event_queue') : event_queue'[i] = entry
                           \/ last_processed_block'[entry.chain] < e.block]_vars

\* ------------------------------------------------------------------------
\* The two directions on one tx hash (SpecCoord)
\* ------------------------------------------------------------------------
\* The signatures a getter returned are all made over this message.
SignedOver(got, tx_hash, message) ==
    got.some
        => \A v \in got.signers :
              pending_signatures[tx_hash].partial_signatures[v].signature.digest
                  = hash_with_domain(tx_hash, message)

\* C37: for a tx hash that both a lock and a burn carry, get_mint_signatures
\* returns only signatures over the mint message of the lock and
\* get_unlock_signatures only signatures over the unlock message of the burn.
C37_DirectionsDoNotInterfere ==
    \A tx_hash \in ethereum_locks \cap polkadot_burns :
        /\ SignedOver(get_mint_signatures(pending_signatures, tx_hash),
                      tx_hash, create_mint_message(tx_hash))
        /\ SignedOver(get_unlock_signatures(pending_signatures, tx_hash),
                      tx_hash, create_unlock_message(tx_hash))

\* ------------------------------------------------------------------------
\* The signers of an aggregate (SpecAggregate)
\* ------------------------------------------------------------------------
\* C38: the signers of a returned AggregatedSignature are k pairwise distinct
\* validators: no call succeeds on partials of fewer than k validators.
C38_SignersAreDistinct ==
    (agg.called /\ agg.result.ok)
        => /\ Len(agg.result.signers) = config.threshold
           /\ Cardinality(SignerSet(agg.result)) = config.threshold
           /\ Cardinality({agg.partial_sigs[i].validator_id :
                              i \in 1..Len(agg.partial_sigs)}) >= config.threshold

\* ------------------------------------------------------------------------
\* Minting without signatures (SpecPallet)
\* ------------------------------------------------------------------------
\* C39: a mint_tokens call that returned Ok carried at least one signature,
\* whatever the value of Threshold, its default included.
C39_MintNeedsASignature ==
    (pcall.op = "mint_tokens" /\ pcall.result = "Ok") => pcall.signatures >= 1

\* ------------------------------------------------------------------------
\* The signing input (SpecHash)
\* ------------------------------------------------------------------------
\* C40: two different (session_id, message) pairs never give the same signing
\* input, and a signature made for one pair verifies for no other pair.
C40_SigningInputInjective ==
    ret.op = "verify_signature"
        => LET same == /\ ret.session_id = ret.verify_session_id
                       /\ ret.message = ret.verify_message
           IN /\ hash_with_domain(ret.session_id, ret.message)
                     = hash_with_domain(ret.verify_session_id, ret.verify_message)
                  => same
              /\ ret.verified => same

====
